---- MODULE Spec2Model ----
(***************************************************************************)
(* Model of the async_ctx crate (src/src/lib.rs): a cancellation Context   *)
(* that is completed externally, its waiter registry (Wakers), the         *)
(* parent/child chain and the RAII Guard.                                  *)
(*                                                                         *)
(* Granularity.  Every access to shared memory is one step:                *)
(*   poll      : per context of the chain, root first: register (lock,     *)
(*               push, unlock), then load of the flag;                     *)
(*   complete  : store of the flag; lock + mem::take; one step per         *)
(*               w.wake(); unlock.                                         *)
(* The MutexGuard made by `self.0.lock().unwrap()` in notify_all is a      *)
(* temporary of the whole expression statement, so it is released only     *)
(* after for_each has run every wake: the lock is held across the wakes.   *)
(* The flag is accessed Relaxed; a Relaxed store sequenced before a lock   *)
(* can sink into the critical section and a Relaxed load sequenced after   *)
(* an unlock can rise into it, but neither can cross the other end of it,  *)
(* so each such execution equals an interleaving in which the store        *)
(* directly precedes the lock step or the load directly follows the        *)
(* register step.  All of those are interleavings of this model.           *)
(***************************************************************************)
EXTENDS Naturals, Sequences, FiniteSets, Bags, TLC

\* Bounds of the model.
NumTasks == 2
NumThreads == 2
MaxCells == 3
MaxPolls == 3
MaxGuards == 1
MaxCalls == 1
\* At most MaxActive contexts, awaiting tasks, completing threads and unprompted
\* polls after a task's first together.
MaxActive == 5

Tasks == 1..NumTasks
Threads == 1..NumThreads
Cells == 1..MaxCells

VARIABLES
    ncells,     \* number of (flag, waiters) pairs allocated so far by Default
    cond,       \* cond[c]: the AtomicBool behind the Arc numbered c
    waiters,    \* waiters[c]: the Vec<Waker> behind the Arc numbered c
    lock,       \* lock[c]: 0 when the Mutex of c is free, else the thread holding it
    handles,    \* the Context values the program has made and holds
    guards,     \* bag of the live Guards (each wraps a Context value)
    fut,        \* fut[t]: <<>> or <<v>>, the Context task t awaits
    tpc,        \* fut[t]'s position: none, idle, register, load, dropped
    lvl,        \* during a poll of t: index in the chain of the context being polled
    res,        \* result of the last finished poll of t: None, Pending, Ready
    polls,      \* number of polls of t started so far
    paid,       \* number of those the executor made unprompted (not after a wake)
    notified,   \* notified[t]: the waker of t was invoked since t's last poll began
    cpc,        \* thread's position in complete(): idle, store, notify, wake
    cself,      \* cself[th]: <<>> or <<v>>, the &self of the running complete()
    via,        \* how the running complete() was entered: call or drop
    drained,    \* drained[th]: the Vec taken by notify_all, not yet woken
    calls,      \* calls[th]: number of complete() calls thread th has begun
    wakes,      \* history: bag of the entries whose waker was invoked
    called,     \* history: cells on which a complete() has begun
    returned,   \* history: bag of the <<cell, via>> of the complete() calls that returned
    made,       \* history: made[c]: number of guards made over cell c so far
    pollAfter,  \* history: the running/last poll of t began after a complete()
                \* of its context or of an ancestor had returned, or after a
                \* poll of the same context had returned Ready
    src,        \* history: src[t]: cell of the handle whose clone task t awaits
    parentOf,   \* history: parentOf[c]: cell of the handle child() was called on
                \* to make c (0 for a root)
    lateChild,  \* history: cells made by child() on a handle whose flag, or an
                \* ancestor's, was already true
    readyAt,    \* history: cell whose flag the last finished poll of t read as
                \* true (0 when it returned Pending)
    prompt,     \* history: the waker of t had been invoked when the running/last
                \* poll of t began
    inline      \* the tasks whose waker, when invoked, polls the task on the spot
                \* before wake() returns

vars == <<ncells, cond, waiters, lock, handles, guards, fut, tpc, lvl, res, polls, paid,
          notified, cpc, cself, via, drained, calls, wakes, called, returned, made, pollAfter,
          src, parentOf, lateChild, readyAt, prompt, inline>>

ctxVars == <<ncells, handles, guards>>
taskVars == <<fut, tpc, lvl, res, polls, paid, notified, pollAfter>>
thrVars == <<cpc, cself, via, drained, calls>>
histVars == <<wakes, called, returned, made>>
shared == <<cond, waiters, lock>>
obsVars == <<src, parentOf, lateChild, readyAt, prompt, inline>>

-----------------------------------------------------------------------------
\* struct Context { parent: Option<Box<Context>>, cond: Arc<..>, wake: Arc<..> }
\* An Option is a sequence of length 0 or 1; an Arc is the number of its cell.
Context(p, c, w) == [parent |-> p, cond |-> c, wake |-> w]

\* impl Default for Wakers: an empty Vec behind a fresh Mutex.
WakersDefault == <<>>

\* #[derive(Default)] for Context: no parent, fresh flag and fresh Wakers, cell n.
ContextDefault(n) == Context(<<>>, n, n)

\* A clone that copies the flag and the Wakers into cells of its own.
ContextCloneDeep(v) == Context(v.parent, (v.cond % MaxCells) + 1, (v.wake % MaxCells) + 1)

\* #[derive(Clone)] for Context: the Arcs are shared, the boxed parent is copied.
ContextClone(v) == Context(v.parent, v.cond, v.wake)

\* A poll that visits the context alone and not its parent.
ChainSelf(v) == <<v>>

\* A poll that visits the direct parent and the context, and no further ancestor.
ChainParentOnly(v) ==
    IF v.parent = <<>> THEN <<v>>
    ELSE <<Context(<<>>, v.parent[1].cond, v.parent[1].wake), v>>

\* A poll that visits the context first and its ancestors after it.
RECURSIVE ChainReversed(_)
ChainReversed(v) == IF v.parent = <<>> THEN <<v>> ELSE <<v>> \o ChainReversed(v.parent[1])

\* The contexts a poll of v visits, root first (the recursion of Context::poll).
RECURSIVE Chain(_)
Chain(v) == IF v.parent = <<>> THEN <<v>> ELSE Chain(v.parent[1]) \o <<v>>

\* The cells of v and of its ancestors, read off the parent links.
RECURSIVE AncestorCells(_)
AncestorCells(v) ==
    {v.cond} \cup (IF v.parent = <<>> THEN {} ELSE AncestorCells(v.parent[1]))

Range(s) == {s[i] : i \in 1..Len(s)}

\* A registered waker: a clone of task t's waker.  poll, cell and early are
\* history fields: which poll pushed it, into which cell, and whether no
\* complete() had yet begun on that cell.
Entry(t, n, c, e) == [task |-> t, poll |-> n, cell |-> c, early |-> e]

-----------------------------------------------------------------------------
\* The state after `Context::default()`: one root context, nothing awaited.
Start ==
    /\ ncells = 1
    /\ cond = [c \in Cells |-> FALSE]
    /\ waiters = [c \in Cells |-> WakersDefault]
    /\ lock = [c \in Cells |-> 0]
    /\ handles = {ContextDefault(1)}
    /\ guards = EmptyBag
    /\ fut = [t \in Tasks |-> <<>>]
    /\ tpc = [t \in Tasks |-> "none"]
    /\ lvl = [t \in Tasks |-> 0]
    /\ res = [t \in Tasks |-> "None"]
    /\ polls = [t \in Tasks |-> 0]
    /\ paid = [t \in Tasks |-> 0]
    /\ notified = [t \in Tasks |-> FALSE]
    /\ cpc = [th \in Threads |-> "idle"]
    /\ cself = [th \in Threads |-> <<>>]
    /\ via = [th \in Threads |-> "call"]
    /\ drained = [th \in Threads |-> <<>>]
    /\ calls = [th \in Threads |-> 0]
    /\ wakes = EmptyBag
    /\ called = {}
    /\ returned = EmptyBag
    /\ made = [c \in Cells |-> 0]
    /\ pollAfter = [t \in Tasks |-> FALSE]
    /\ src = [t \in Tasks |-> 0]
    /\ parentOf = [c \in Cells |-> 0]
    /\ lateChild = {}
    /\ readyAt = [t \in Tasks |-> 0]
    /\ prompt = [t \in Tasks |-> FALSE]

\* Every task is polled by an executor whose wakers only mark the task as
\* notified (as the wakers of tokio do).
Init == Start /\ inline = {}

-----------------------------------------------------------------------------
\* What a run has put to use so far: contexts, awaiting tasks, completing
\* threads, and the unprompted polls after the first of each task.
RECURSIVE SumOver(_, _)
SumOver(f, S) ==
    IF S = {} THEN 0
    ELSE LET x == CHOOSE y \in S : TRUE IN f[x] + SumOver(f, S \ {x})

Used ==
    ncells + Cardinality({t \in Tasks : tpc[t] # "none"})
           + Cardinality({th \in Threads : calls[th] > 0})
           + SumOver([t \in Tasks |-> IF paid[t] > 0 THEN paid[t] - 1 ELSE 0], Tasks)

\* Handles: child() and guard().  The program keeps a handle of every context
\* it has made and hands out clones of it (to tasks, guards and children).

\* A child that shares the flag and the Wakers of its parent.
ChildOfShared(v, n) == Context(<<ContextClone(v)>>, v.cond, v.wake)

\* Context::child(): Self { parent: Some(Box::new(self.clone())), ..Self::default() }
ChildOf(v, n) == Context(<<ContextClone(v)>>, ContextDefault(n).cond, ContextDefault(n).wake)

Child(v) ==
    /\ v \in handles
    /\ ncells < MaxCells
    /\ Used < MaxActive
    /\ ncells' = ncells + 1
    /\ handles' = handles \cup {ChildOf(v, ncells + 1)}
    /\ parentOf' = [parentOf EXCEPT ![ncells + 1] = v.cond]
    /\ lateChild' = IF \E c \in AncestorCells(v) : cond[c]
                    THEN lateChild \cup {ncells + 1} ELSE lateChild
    /\ UNCHANGED <<guards, shared, taskVars, thrVars, histVars, src, readyAt, prompt, inline>>

\* Context::guard(): Guard(self.clone())
MkGuard(v) ==
    /\ v \in handles
    /\ BagCardinality(guards) < MaxGuards
    /\ guards' = guards (+) SetToBag({ContextClone(v)})
    /\ made' = [made EXCEPT ![v.cond] = made[v.cond] + 1]
    /\ UNCHANGED <<ncells, handles, shared, taskVars, thrVars, wakes, called, returned, obsVars>>

-----------------------------------------------------------------------------
\* complete(), from a call or from Guard::drop.

\* Threads and tasks are interchangeable, so they are put to use in the order
\* of their numbers; a thread makes at most MaxCalls calls of complete().
CanCall(th) ==
    /\ cpc[th] = "idle"
    /\ calls[th] < MaxCalls
    /\ calls[th] = 0 => Used < MaxActive
    /\ \A o \in Threads : o < th => calls[o] > 0

CanAwait(t) ==
    /\ tpc[t] = "none"
    /\ Used < MaxActive
    /\ \A o \in Tasks : o < t => tpc[o] # "none"

\* Context::complete is entered on a handle the program owns.
Complete(th, v) ==
    /\ CanCall(th)
    /\ v \in handles
    /\ cpc' = [cpc EXCEPT ![th] = "store"]
    /\ cself' = [cself EXCEPT ![th] = <<v>>]
    /\ via' = [via EXCEPT ![th] = "call"]
    /\ calls' = [calls EXCEPT ![th] = calls[th] + 1]
    /\ called' = called \cup {v.cond}
    /\ UNCHANGED <<ctxVars, shared, taskVars, drained, wakes, returned, made, obsVars>>

\* A Guard whose drop frees the wrapped Context and does nothing else.
DropGuardOnly(th, g) ==
    /\ CanCall(th)
    /\ BagIn(g, guards)
    /\ guards' = guards (-) SetToBag({g})
    /\ calls' = [calls EXCEPT ![th] = calls[th] + 1]
    /\ UNCHANGED <<ncells, handles, shared, taskVars, cpc, cself, via, drained, histVars, obsVars>>

\* impl Drop for Guard: self.0.complete()
DropGuard(th, g) ==
    /\ CanCall(th)
    /\ BagIn(g, guards)
    /\ guards' = guards (-) SetToBag({g})
    /\ cpc' = [cpc EXCEPT ![th] = "store"]
    /\ cself' = [cself EXCEPT ![th] = <<g>>]
    /\ via' = [via EXCEPT ![th] = "drop"]
    /\ calls' = [calls EXCEPT ![th] = calls[th] + 1]
    /\ called' = called \cup {g.cond}
    /\ UNCHANGED <<ncells, handles, shared, taskVars, drained, wakes, returned, made, obsVars>>

\* A store that also reaches the flag of the parent.
StoreCellsUp(v) == {v.cond} \cup (IF v.parent = <<>> THEN {} ELSE {v.parent[1].cond})

\* A complete() that leaves the flag alone.
StoreCellsNone(v) == {}

\* A complete() that yields to a live guard over the same context.
StoreCellsUnguarded(v) ==
    IF \E g \in BagToSet(guards) : g.cond = v.cond THEN {} ELSE {v.cond}

\* self.cond.store(true, Relaxed): the cells written ...
StoreCells(v) == {v.cond}

\* A store that flips the flag instead of setting it.
StoreToggle(old) == ~old

\* A store that writes back what the flag held.
StoreValueKeep(old) == old

\* ... and the value written.
StoreValue(old) == TRUE

CompleteStore(th) ==
    /\ cpc[th] = "store"
    /\ cond' = [c \in Cells |->
                  IF c \in StoreCells(cself[th][1]) THEN StoreValue(cond[c]) ELSE cond[c]]
    /\ cpc' = [cpc EXCEPT ![th] = "notify"]
    /\ UNCHANGED <<ctxVars, waiters, lock, taskVars, cself, via, drained, calls, histVars, obsVars>>

\* A drain that copies the Vec and leaves it as it was.
TakeCopy(ws) == [taken |-> ws, left |-> ws]

\* A drain that takes every waker out but keeps the last one in the Vec as well.
TakeKeepLast(ws) == [taken |-> ws, left |-> IF ws = <<>> THEN <<>> ELSE <<ws[Len(ws)]>>]

\* mem::take(&mut *guard): what is taken out and what is left in the Vec.
Take(ws) == [taken |-> ws, left |-> WakersDefault]

\* A notify_all that gives the Mutex back as soon as the Vec is taken.
NotifyLockRelease(th) ==
    /\ cpc[th] = "notify"
    /\ LET w == cself[th][1].wake IN
         /\ lock[w] = 0
         /\ lock' = lock
         /\ drained' = [drained EXCEPT ![th] = Take(waiters[w]).taken]
         /\ waiters' = [waiters EXCEPT ![w] = Take(waiters[w]).left]
    /\ cpc' = [cpc EXCEPT ![th] = "wake"]
    /\ UNCHANGED <<ctxVars, cond, taskVars, cself, via, calls, histVars, obsVars>>

\* Wakers::notify_all, first part: self.0.lock().unwrap() and mem::take.
NotifyLock(th) ==
    /\ cpc[th] = "notify"
    /\ LET w == cself[th][1].wake IN
         /\ lock[w] = 0
         /\ lock' = [lock EXCEPT ![w] = th]
         /\ drained' = [drained EXCEPT ![th] = Take(waiters[w]).taken]
         /\ waiters' = [waiters EXCEPT ![w] = Take(waiters[w]).left]
    /\ cpc' = [cpc EXCEPT ![th] = "wake"]
    /\ UNCHANGED <<ctxVars, cond, taskVars, cself, via, calls, histVars, obsVars>>

\* The waker of t polls t inside wake(): t is one of the inline tasks, is
\* between polls and has not finished.
PollsInline(t) == t \in inline /\ tpc[t] = "idle" /\ res[t] = "Pending"

\* Wakers::notify_all, .into_iter().for_each(|w| w.wake()): one waker per step.
\* Waker::wake marks the task as notified; the executor polls it again.
NotifyWake(th) ==
    /\ cpc[th] = "wake"
    /\ drained[th] # <<>>
    /\ LET e == Head(drained[th]) IN
         /\ ~PollsInline(e.task)
         /\ notified' = [notified EXCEPT ![e.task] = TRUE]
         /\ wakes' = wakes (+) SetToBag({e})
    /\ drained' = [drained EXCEPT ![th] = Tail(drained[th])]
    /\ UNCHANGED <<ctxVars, shared, fut, tpc, lvl, res, polls, paid, pollAfter,
                   cpc, cself, via, calls, called, returned, made, obsVars>>

\* Wakers::notify_all, end of the statement: the MutexGuard temporary is
\* dropped; then complete() returns (and a dropped Guard's Context is freed).
NotifyUnlock(th) ==
    /\ cpc[th] = "wake"
    /\ drained[th] = <<>>
    /\ lock' = [lock EXCEPT ![cself[th][1].wake] = 0]
    /\ returned' = returned (+) SetToBag({<<cself[th][1].cond, via[th]>>})
    /\ cpc' = [cpc EXCEPT ![th] = "idle"]
    /\ cself' = [cself EXCEPT ![th] = <<>>]
    /\ UNCHANGED <<ctxVars, cond, waiters, taskVars, via, drained, calls, wakes, called, made, obsVars>>

-----------------------------------------------------------------------------
\* Awaiting: a task owns one Context and polls it.

\* A clone of a handle is moved into a task (`timeout(JIFFY, ctx.clone())`).
Await(t, v) ==
    /\ CanAwait(t)
    /\ v \in handles
    /\ fut' = [fut EXCEPT ![t] = <<ContextClone(v)>>]
    /\ tpc' = [tpc EXCEPT ![t] = "idle"]
    /\ src' = [src EXCEPT ![t] = v.cond]
    /\ UNCHANGED <<ctxVars, shared, lvl, res, polls, paid, notified, pollAfter,
                   thrVars, histVars, parentOf, lateChild, readyAt, prompt, inline>>

ReturnedCells == {r[1] : r \in BagToSet(returned)}

\* The executor polls a task after its waker was invoked while it was Pending,
\* and may poll it unprompted (the first poll, or a spurious one).
Prompted(t) == notified[t] /\ res[t] = "Pending"

CanPoll(t) ==
    \/ Prompted(t)
    \/ paid[t] = 0
    \/ paid[t] < MaxPolls /\ Used < MaxActive

\* Context::poll is entered; the recursion descends to the root without effect.
PollStart(t) ==
    /\ tpc[t] = "idle"
    /\ CanPoll(t)
    /\ polls' = [polls EXCEPT ![t] = polls[t] + 1]
    /\ paid' = [paid EXCEPT ![t] = IF Prompted(t) THEN paid[t] ELSE paid[t] + 1]
    /\ notified' = [notified EXCEPT ![t] = FALSE]
    /\ lvl' = [lvl EXCEPT ![t] = 1]
    /\ tpc' = [tpc EXCEPT ![t] = "register"]
    /\ pollAfter' = [pollAfter EXCEPT ![t] =
                       \/ AncestorCells(fut[t][1]) \cap ReturnedCells # {}
                       \/ \E u \in Tasks : fut[u] = fut[t] /\ res[u] = "Ready"]
    /\ prompt' = [prompt EXCEPT ![t] = notified[t]]
    /\ UNCHANGED <<ctxVars, shared, fut, res, thrVars, histVars, src, parentOf, lateChild, readyAt, inline>>

\* register that keeps the Vec as it was: the waker is not stored.
PushLost(ws, e) == ws

\* register into a single slot: only the most recent waker is kept.
PushReplace(ws, e) == <<e>>

\* Wakers::register: wakers.push(waker.clone()) under the lock.
Push(ws, e) == Append(ws, e)

\* self.wake.register(ctx.waker()), for the context at lvl[t] of the chain.
Register(t) ==
    /\ tpc[t] = "register"
    /\ LET w == Chain(fut[t][1])[lvl[t]].wake IN
         /\ lock[w] = 0
         /\ waiters' = [waiters EXCEPT ![w] =
                          Push(waiters[w], Entry(t, polls[t], w, w \notin called))]
    /\ tpc' = [tpc EXCEPT ![t] = "load"]
    /\ UNCHANGED <<ctxVars, cond, lock, fut, lvl, res, polls, paid, notified, pollAfter,
                   thrVars, histVars, obsVars>>

\* A flag check that succeeds whatever the flag holds.
IsReadyAlways(flag) == TRUE

\* if self.cond.load(Relaxed) { return Poll::Ready(()) }
IsReady(flag) == flag

\* The flag check of the context at lvl[t].  Ready is returned through every
\* caller of the recursion; otherwise the caller goes on with its own
\* register, and the last context of the chain returns Pending.
Load(t) ==
    /\ tpc[t] = "load"
    /\ LET ch == Chain(fut[t][1]) IN
         IF IsReady(cond[ch[lvl[t]].cond])
         THEN /\ res' = [res EXCEPT ![t] = "Ready"]
              /\ tpc' = [tpc EXCEPT ![t] = "idle"]
              /\ lvl' = [lvl EXCEPT ![t] = 0]
              /\ readyAt' = [readyAt EXCEPT ![t] = ch[lvl[t]].cond]
         ELSE IF lvl[t] < Len(ch)
         THEN /\ lvl' = [lvl EXCEPT ![t] = lvl[t] + 1]
              /\ tpc' = [tpc EXCEPT ![t] = "register"]
              /\ res' = res
              /\ readyAt' = readyAt
         ELSE /\ res' = [res EXCEPT ![t] = "Pending"]
              /\ tpc' = [tpc EXCEPT ![t] = "idle"]
              /\ lvl' = [lvl EXCEPT ![t] = 0]
              /\ readyAt' = [readyAt EXCEPT ![t] = 0]
    /\ UNCHANGED <<ctxVars, shared, fut, polls, paid, notified, pollAfter, thrVars, histVars,
                   src, parentOf, lateChild, prompt, inline>>

\* A Context whose drop sets the shared flag, as the drop of a Guard does.
DropAwaitCompletes(t) ==
    /\ tpc[t] = "idle"
    /\ tpc' = [tpc EXCEPT ![t] = "dropped"]
    /\ cond' = [cond EXCEPT ![fut[t][1].cond] = TRUE]
    /\ UNCHANGED <<ctxVars, waiters, lock, fut, lvl, res, polls, paid, notified, pollAfter,
                   thrVars, histVars, obsVars>>

\* The awaiting task is dropped between polls: its Context is dropped.
DropAwait(t) ==
    /\ tpc[t] = "idle"
    /\ tpc' = [tpc EXCEPT ![t] = "dropped"]
    /\ UNCHANGED <<ctxVars, shared, fut, lvl, res, polls, paid, notified, pollAfter,
                   thrVars, histVars, obsVars>>

-----------------------------------------------------------------------------
\* Wakers that poll inside wake().  A Waker is made by whoever polls the
\* future; wake() of such a waker runs Context::poll of the task on the
\* thread that is inside notify_all, and returns when that poll has returned.

\* w.wake() of an inline waker: the poll of the task begins on thread th.
WakeInline(th) ==
    /\ cpc[th] = "wake"
    /\ drained[th] # <<>>
    /\ LET e == Head(drained[th]) IN
         /\ PollsInline(e.task)
         /\ wakes' = wakes (+) SetToBag({e})
         /\ polls' = [polls EXCEPT ![e.task] = polls[e.task] + 1]
         /\ notified' = [notified EXCEPT ![e.task] = FALSE]
         /\ lvl' = [lvl EXCEPT ![e.task] = 1]
         /\ tpc' = [tpc EXCEPT ![e.task] = "register"]
         /\ pollAfter' = [pollAfter EXCEPT ![e.task] =
                            \/ AncestorCells(fut[e.task][1]) \cap ReturnedCells # {}
                            \/ \E u \in Tasks : fut[u] = fut[e.task] /\ res[u] = "Ready"]
         /\ prompt' = [prompt EXCEPT ![e.task] = TRUE]
    /\ cpc' = [cpc EXCEPT ![th] = "inwake"]
    /\ UNCHANGED <<ctxVars, shared, fut, res, paid, cself, via, drained, calls,
                   called, returned, made, src, parentOf, lateChild, readyAt, inline>>

\* The poll made inside wake() has returned: wake() returns and for_each goes
\* on with the next waker.
WakeInlineReturn(th) ==
    /\ cpc[th] = "inwake"
    /\ tpc[Head(drained[th]).task] \notin {"register", "load"}
    /\ drained' = [drained EXCEPT ![th] = Tail(drained[th])]
    /\ cpc' = [cpc EXCEPT ![th] = "wake"]
    /\ UNCHANGED <<ctxVars, shared, taskVars, cself, via, calls, histVars, obsVars>>

-----------------------------------------------------------------------------
Next ==
    \/ \E v \in handles : Child(v)
    \/ \E v \in handles : MkGuard(v)
    \/ \E th \in Threads : \E v \in handles : Complete(th, v)
    \/ \E th \in Threads : \E g \in BagToSet(guards) : DropGuard(th, g)
    \/ \E th \in Threads : CompleteStore(th)
    \/ \E th \in Threads : NotifyLock(th)
    \/ \E th \in Threads : NotifyWake(th)
    \/ \E th \in Threads : NotifyUnlock(th)
    \/ \E t \in Tasks : \E v \in handles : Await(t, v)
    \/ \E t \in Tasks : PollStart(t)
    \/ \E t \in Tasks : Register(t)
    \/ \E t \in Tasks : Load(t)
    \/ \E t \in Tasks : DropAwait(t)

Spec == Init /\ [][Next]_vars

\* The same program with the first task polled by an inline waker.
InitInline == Start /\ inline = {1}

NextInline ==
    \/ Next
    \/ \E th \in Threads : WakeInline(th)
    \/ \E th \in Threads : WakeInlineReturn(th)

SpecInline == InitInline /\ [][NextInline]_vars

-----------------------------------------------------------------------------
\* Vocabulary of the properties.

\* The last poll of t has returned (t is between polls, or dropped after one).
Returned(t) == tpc[t] \in {"idle", "dropped"} /\ polls[t] > 0

\* The context t awaits, and the cell of its own flag and waiters.
Own(t) == fut[t][1].cond

\* The waker pushed into cell c by poll n of task t ...
IsEntry(e, t, n, c) == e.task = t /\ e.poll = n /\ e.cell = c

\* ... has been invoked,
Woken(t, n, c) == \E e \in BagToSet(wakes) : IsEntry(e, t, n, c)

\* ... is still registered in c while a complete() of c has yet to drain c,
Awaiting(t, n, c) ==
    /\ \E e \in Range(waiters[c]) : IsEntry(e, t, n, c)
    /\ \E th \in Threads : cpc[th] \in {"store", "notify"} /\ cself[th][1].wake = c

\* ... or was drained by a complete() of c that is waking the drained wakers.
BeingWoken(t, n, c) ==
    \E th \in Threads :
        /\ cpc[th] = "wake" /\ cself[th][1].wake = c
        /\ \E e \in Range(drained[th]) : IsEntry(e, t, n, c)

-----------------------------------------------------------------------------
\* C1.  No lost wakeup: whenever the flag of C is true and a poll of C has
\* returned Pending, the waker that poll registered in C has been woken, or a
\* complete() of C is still in progress that holds it: it is still in C's
\* waiters with the drain to come, or it was drained and is about to be woken.
NoLostWakeup ==
    \A t \in Tasks :
        (Returned(t) /\ res[t] = "Pending" /\ cond[Own(t)]) =>
            \/ Woken(t, polls[t], Own(t))
            \/ Awaiting(t, polls[t], Own(t))
            \/ BeingWoken(t, polls[t], Own(t))

\* A poll returned Pending, a complete() then woke its waker, and a second
\* complete() of the same context is running concurrently.
NoLostWakeupWitness ==
    \E t \in Tasks :
        /\ Returned(t) /\ res[t] = "Pending" /\ cond[Own(t)]
        /\ Woken(t, polls[t], Own(t))
        /\ \E th \in Threads : cpc[th] = "notify" /\ cself[th][1].cond = Own(t)

\* C2.  A poll returns Ready only when the flag of its context or of an
\* ancestor is true, and returns Pending when no complete() (call or guard
\* drop) has begun on its context or on any ancestor.
PollResultSound ==
    \A t \in Tasks :
        /\ res[t] = "Ready" => \E c \in AncestorCells(fut[t][1]) : cond[c]
        /\ (Returned(t) /\ AncestorCells(fut[t][1]) \cap called = {}) => res[t] = "Pending"

\* One task got Ready from a completed child while a task on the root, which
\* nobody completed, got Pending.
PollResultSoundWitness ==
    \E t, u \in Tasks :
        /\ Returned(t) /\ res[t] = "Ready"
        /\ Returned(u) /\ res[u] = "Pending" /\ fut[u][1].parent = <<>>
        /\ AncestorCells(fut[u][1]) \cap called = {}

\* The steps the scheduling guarantees: a call that has begun runs to its end
\* (a thread inside complete() or a task inside poll() takes its next step),
\* and the executor polls again a task whose waker was invoked while it was
\* Pending.  Starting an operation, an unprompted poll and dropping a task
\* are never forced.
Progress ==
    \/ \E th \in Threads : CompleteStore(th)
    \/ \E th \in Threads : NotifyLock(th)
    \/ \E th \in Threads : NotifyWake(th)
    \/ \E th \in Threads : NotifyUnlock(th)
    \/ \E t \in Tasks : Register(t)
    \/ \E t \in Tasks : Load(t)
    \/ \E t \in Tasks : Prompted(t) /\ PollStart(t)

\* Nothing is in progress: no thread is inside complete(), no task is inside
\* poll(), and no woken Pending task waits for its poll.
Quiescent ==
    /\ \A th \in Threads : cpc[th] = "idle"
    /\ \A t \in Tasks : tpc[t] \notin {"register", "load"}
    /\ \A t \in Tasks : tpc[t] = "idle" => ~Prompted(t)

\* C3.  Parent-to-child propagation: work in progress can always go on, and
\* when it has all been done, no await is left Pending whose context or any
\* ancestor of it, at any depth, had complete() called on it: each such await
\* was woken and its poll returned Ready.
PropagatesDown ==
    /\ ~Quiescent => ENABLED Progress
    /\ Quiescent =>
          \A t \in Tasks :
              (tpc[t] = "idle" /\ polls[t] > 0 /\ AncestorCells(fut[t][1]) \cap called # {})
                  => res[t] = "Ready"

\* An await on a grandchild (depth 3) was Pending, complete() ran on the
\* root only, the grandchild's waker was woken from the root's waiters and
\* its prompted poll returned Ready.
PropagatesDownWitness ==
    /\ Quiescent
    /\ \E t \in Tasks :
          /\ Returned(t) /\ res[t] = "Ready" /\ paid[t] < polls[t]
          /\ Cardinality(AncestorCells(fut[t][1])) = 3
          /\ called = {c \in Cells : \E v \in handles : v.parent = <<>> /\ v.cond = c}
          /\ \E e \in BagToSet(wakes) : e.task = t /\ e.cell \in called

\* Thread th takes a step of its running complete() (store, drain, wake or return).
StepOf(th) == cpc[th] # "idle" /\ (cpc'[th] # cpc[th] \/ drained'[th] # drained[th])

\* C4.  Child isolation: a step of complete() on a context (called, or from a
\* guard drop) leaves the flag and the waiters of every other context as they
\* were, its parent, further ancestors and siblings included; and a poll
\* turns Ready only when complete() was called on its own context or on an
\* ancestor of it, never because a child or a sibling was completed.
ChildIsolation ==
    [][ /\ \A th \in Threads : StepOf(th) =>
              \A d \in Cells \ {cself[th][1].cond} :
                  cond'[d] = cond[d] /\ waiters'[d] = waiters[d]
        /\ \A t \in Tasks : (res'[t] = "Ready" /\ res[t] # "Ready") =>
              AncestorCells(fut[t][1]) \cap called # {}
      ]_vars

\* complete() on a child has returned and woke the child's waiter; a task on
\* its parent, polled twice, is still Pending and still registered there.
ChildIsolationWitness ==
    \E t \in Tasks : \E v \in handles :
        /\ Returned(t) /\ res[t] = "Pending" /\ polls[t] >= 2
        /\ v.parent # <<>> /\ v.parent[1].cond = Own(t)
        /\ BagIn(<<v.cond, "call">>, returned)
        /\ ~cond[Own(t)] /\ Len(waiters[Own(t)]) >= 2

\* C5.  The flag is a one-way latch: no step takes a true flag back to false.
FlagLatch == [][\A c \in Cells : cond[c] => cond'[c]]_vars

\* Two complete() calls of the same context have both returned (one of them
\* stored into a flag that was already true) and the flag is true.
FlagLatchWitness ==
    \E c \in Cells :
        /\ cond[c] /\ called = {c}
        /\ \A th \in Threads : calls[th] > 0 /\ cpc[th] = "idle"

\* C6.  Completion is latched for observers: a poll that began after a
\* complete() of its context or of an ancestor had returned, or after a poll
\* of the same context (by any task) had returned Ready, yields Ready; and
\* the result of a task's polls never goes from Ready back to Pending.
ReadyLatch ==
    [][\A t \in Tasks :
          /\ (Returned(t) /\ pollAfter[t])' => res'[t] = "Ready"
          /\ res[t] = "Ready" => res'[t] = "Ready"
      ]_vars

\* A task polled three times, never prompted by a wake; its third poll began
\* after the completion had become observable and returned Ready.
ReadyLatchWitness ==
    \E t \in Tasks :
        /\ Returned(t) /\ pollAfter[t] /\ res[t] = "Ready"
        /\ polls[t] >= 3 /\ paid[t] = polls[t]

\* C7.  Fan-out: once a complete() of C has returned, every task whose last
\* poll of C returned Pending has had the waker of that poll woken, whatever
\* the number of such tasks and the order they registered in; and when all
\* work is done each of them has polled again and got Ready.
FanOut ==
    /\ \A t \in Tasks :
          (Returned(t) /\ res[t] = "Pending" /\ Own(t) \in ReturnedCells)
              => Woken(t, polls[t], Own(t))
    /\ Quiescent =>
          \A t \in Tasks :
              (tpc[t] = "idle" /\ polls[t] > 0 /\ Own(t) \in ReturnedCells)
                  => res[t] = "Ready"

\* Two tasks were Pending on the same context, one complete() ran, woke the
\* waker of each, and both got Ready from their prompted polls.
FanOutWitness ==
    /\ Quiescent
    /\ BagCardinality(returned) = 1
    /\ \E t, u \in Tasks :
          /\ t # u /\ Returned(t) /\ Returned(u) /\ Own(t) = Own(u)
          /\ Woken(t, 1, Own(t)) /\ Woken(u, 1, Own(u))
          /\ \A x \in {t, u} : res[x] = "Ready" /\ polls[x] = 2 /\ paid[x] = 1

\* The wakers registered in c before the first complete() of c began that
\* have not been woken yet.
EarlyUnwoken(c) ==
    {e \in Range(waiters[c]) : e.early}
        \cup UNION {{e \in Range(drained[th]) : e.early /\ e.cell = c} : th \in Threads}

\* C8.  complete() is idempotent: whenever one or more complete() calls of a
\* context have returned, its flag is true and every waker registered before
\* the first call has been woken; and no such waker is ever woken twice,
\* however many calls run, one after another or at once.
Idempotent ==
    /\ \A c \in ReturnedCells : cond[c] /\ EarlyUnwoken(c) = {}
    /\ \A e \in BagToSet(wakes) : e.early => CopiesIn(e, wakes) = 1

\* Two complete() calls of one context have returned; a waker registered
\* before the first was woken (once).
IdempotentWitness ==
    \E c \in Cells :
        /\ BagCardinality(returned) = 2 /\ ReturnedCells = {c}
        /\ \E e \in BagToSet(wakes) : e.early /\ e.cell = c

\* The guards over cell c that are alive, and those that were dropped.
LiveGuards(c) == BagCardinality([g \in {x \in BagToSet(guards) : x.cond = c} |-> guards[g]])

DroppedGuards(c) == made[c] - LiveGuards(c)

\* C9.  Guard semantics: making a guard changes no flag and no waiters and
\* calls no complete(); every dropped guard runs complete() on its context
\* once: never more drop-completions than dropped guards, and, when all work
\* is done, exactly as many; once a guard drop has returned the flag is true
\* and every await on the context that was Pending has been woken, and when
\* all work is done it is Ready.
GuardSemantics ==
    [][ /\ (BagCardinality(guards') > BagCardinality(guards)) =>
              UNCHANGED <<cond, waiters, called>>
        /\ \A c \in Cells :
              /\ CopiesIn(<<c, "drop">>, returned') <= DroppedGuards(c)'
              /\ Quiescent' => CopiesIn(<<c, "drop">>, returned') = DroppedGuards(c)'
              /\ BagIn(<<c, "drop">>, returned') =>
                    /\ cond'[c]
                    /\ \A t \in Tasks :
                          (Returned(t) /\ res[t] = "Pending" /\ Own(t) = c)'
                              => Woken(t, polls[t], c)'
                    /\ Quiescent' =>
                          \A t \in Tasks :
                              (tpc[t] = "idle" /\ polls[t] > 0 /\ Own(t) = c)'
                                  => res'[t] = "Ready"
      ]_vars

\* A task was Pending on C while a guard over C was alive (it polled twice);
\* the guard was dropped, nothing else completed C, the waker was woken and
\* the task is Ready.
GuardSemanticsWitness ==
    /\ Quiescent
    /\ \E t \in Tasks :
          /\ Returned(t) /\ res[t] = "Ready" /\ polls[t] = 3 /\ paid[t] = 2
          /\ made[Own(t)] = 1 /\ DroppedGuards(Own(t)) = 1
          /\ returned = SetToBag({<<Own(t), "drop">>})
          /\ Woken(t, 2, Own(t))

\* C10.  A live guard is no gatekeeper: once a called complete() of C has
\* returned, guards over C alive or not, the flag of C is true and every
\* Pending await on C has been woken; the later drop of such a guard runs to
\* its end (it can always take its next step or the Mutex holder can) and
\* leaves the flag true.
NoGatekeeper ==
    /\ \A c \in Cells : BagIn(<<c, "call">>, returned) =>
          /\ cond[c]
          /\ \A t \in Tasks :
                (Returned(t) /\ res[t] = "Pending" /\ Own(t) = c) => Woken(t, polls[t], c)
    /\ \A th \in Threads : (cpc[th] # "idle" /\ via[th] = "drop") =>
          ENABLED (CompleteStore(th) \/ NotifyLock(th) \/ NotifyWake(th) \/ NotifyUnlock(th)
                   \/ \E o \in Threads \ {th} : NotifyWake(o) \/ NotifyUnlock(o))

\* A called complete() of C has returned while a guard over C is alive; it
\* woke a Pending task, which then got Ready.
NoGatekeeperWitness ==
    \E c \in Cells :
        /\ cond[c] /\ made[c] = 1 /\ LiveGuards(c) = 1
        /\ returned = SetToBag({<<c, "call">>})
        /\ \E t \in Tasks : Returned(t) /\ Own(t) = c /\ Woken(t, 1, c) /\ res[t] = "Ready"

\* The cell c and the cells of the contexts child() derived it from, read off
\* the record of the child() calls.
RECURSIVE Lineage(_)
Lineage(c) == IF c = 0 THEN {} ELSE {c} \cup Lineage(parentOf[c])

\* C11.  Clones are views of one entity: the clone a task awaits, the clone
\* inside a guard and the clone in a child's parent link carry the flag and
\* the waiters of the handle they were cloned from; so a Pending await made
\* through one clone has been woken once a complete() made through any other
\* clone of its context or of an ancestor (a handle, a guard's clone) has
\* returned, and when all work is done its poll has observed Ready.
ClonesShare ==
    /\ \A t \in Tasks : fut[t] # <<>> =>
          fut[t][1].cond = src[t] /\ fut[t][1].wake = src[t]
    /\ \A v \in handles : v.parent # <<>> =>
          v.parent[1].cond = parentOf[v.cond] /\ v.parent[1].wake = parentOf[v.cond]
    /\ \A g \in BagToSet(guards) : g.cond = g.wake /\ made[g.cond] > 0
    /\ \A t \in Tasks : \A c \in Lineage(src[t]) \cap ReturnedCells :
          (Returned(t) /\ res[t] = "Pending") =>
              \E e \in BagToSet(wakes) : e.task = t /\ e.poll = polls[t] /\ e.cell = c
    /\ Quiescent =>
          \A t \in Tasks :
              (tpc[t] = "idle" /\ polls[t] > 0 /\ Lineage(src[t]) \cap called # {})
                  => res[t] = "Ready"

\* A task awaits a clone of a child handle; a guard holding a clone of the
\* root handle was dropped; the waker the task's poll registered through the
\* clone in the child's parent link was woken from the root's waiters by the
\* guard's complete(), and the task's next poll returned Ready.
ClonesShareWitness ==
    /\ Quiescent
    /\ \E t \in Tasks :
          /\ Returned(t) /\ res[t] = "Ready"
          /\ parentOf[src[t]] # 0
          /\ returned = SetToBag({<<parentOf[src[t]], "drop">>})
          /\ \E e \in BagToSet(wakes) : e.task = t /\ e.cell = parentOf[src[t]]
          /\ readyAt[t] = parentOf[src[t]]

\* C12.  child() makes a context whose flag and waiters are fresh (shared
\* with no context made before), the flag false and the waiters empty, also
\* when the parent or a further ancestor is already completed, and it changes
\* no flag and no waiters; a poll of a child that was never completed itself,
\* begun after a complete() of an ancestor had returned, yields Ready, read
\* from an ancestor's flag; and when all work is done every polled await on a
\* context with a completed ancestor is Ready, whether the ancestor was
\* completed before or after child().
ChildFresh ==
    [][ /\ \A v \in handles' \ handles :
              /\ v.parent # <<>> /\ v.parent[1] \in handles
              /\ v.cond \notin {h.cond : h \in handles}
              /\ v.wake \notin {h.wake : h \in handles}
              /\ ~cond'[v.cond] /\ waiters'[v.wake] = WakersDefault
              /\ UNCHANGED <<cond, waiters>>
        /\ \A t \in Tasks :
              (Returned(t) /\ pollAfter[t] /\ src[t] \notin called)' =>
                  res'[t] = "Ready" /\ readyAt'[t] \in Lineage(parentOf[src[t]])'
        /\ Quiescent' =>
              \A t \in Tasks :
                  (tpc[t] = "idle" /\ polls[t] > 0
                     /\ Lineage(parentOf[src[t]]) \cap called # {})' => res'[t] = "Ready"
      ]_vars

\* child() was called on a handle that was already completed; the child's
\* flag is false, its waiters are empty, nobody completed the child, and the
\* one poll of the child returned Ready.
ChildFreshWitness ==
    \E t \in Tasks :
        /\ Returned(t) /\ res[t] = "Ready" /\ polls[t] = 1
        /\ src[t] \in lateChild /\ src[t] \notin called
        /\ ~cond[src[t]] /\ waiters[src[t]] = WakersDefault
        /\ cond[parentOf[src[t]]]

\* C13.  Dropping an await (the polled clone of a Context; it has no Drop
\* impl) calls no complete() and leaves the shared state as it was: every
\* flag, every waiters collection and every Mutex, those of its context and
\* of the ancestors included; no waker is invoked, and the other awaits keep
\* their position and their result.
DropFrame ==
    [][\A t \in Tasks : (tpc[t] # "dropped" /\ tpc'[t] = "dropped") =>
          /\ UNCHANGED <<cond, waiters, lock>>
          /\ UNCHANGED <<cpc, calls, called, wakes, returned>>
          /\ \A u \in Tasks \ {t} :
                res'[u] = res[u] /\ tpc'[u] = tpc[u] /\ notified'[u] = notified[u]
      ]_vars

\* A child await was dropped while Pending: its wakers are still registered
\* in the child's waiters and in the parent's, nothing was completed, both
\* flags are false, and another await on the same child, polled twice, is
\* still Pending.
DropFrameWitness ==
    \E t, u \in Tasks :
        /\ t # u /\ tpc[t] = "dropped" /\ res[t] = "Pending"
        /\ fut[u] = fut[t] /\ tpc[u] = "idle" /\ res[u] = "Pending" /\ polls[u] = 2
        /\ called = {} /\ \A c \in Cells : ~cond[c]
        /\ parentOf[src[t]] # 0
        /\ \A c \in Lineage(src[t]) : \E e \in Range(waiters[c]) : e.task = t

\* The entries of waiters[c] that clones of task t's waker make up.
EntriesOf(t, c) == {i \in 1..Len(waiters[c]) : waiters[c][i].task = t}

\* C14.  The waiters of a context hold one waker for each outstanding await
\* that has not observed completion: never two entries for the same await,
\* and no entry for an await whose poll has returned Ready or that has been
\* dropped.  (Context::poll pushes a clone of the waker on every poll and
\* nothing removes one but the drain of a complete(): this does not hold.)
OneEntryPerAwait ==
    \A c \in Cells : \A t \in Tasks :
        /\ Cardinality(EntriesOf(t, c)) <= 1
        /\ (Returned(t) /\ res[t] = "Ready") => EntriesOf(t, c) = {}
        /\ tpc[t] = "dropped" => EntriesOf(t, c) = {}

\* The steps of the calls in progress, inline wakers included.
ProgressInline ==
    \/ Progress
    \/ \E th \in Threads : WakeInline(th)
    \/ \E th \in Threads : WakeInlineReturn(th)

\* C15.  No operation blocks for ever: while a poll, a complete() or a guard
\* drop is in progress, one of the calls in progress can take its next step,
\* also when a waker invoked by complete() polls the same context before it
\* returns.  (notify_all holds the Mutex of the waiters while it runs the
\* wakers, and the poll made by such a waker waits for that Mutex on the
\* thread that holds it: this does not hold.)
NeverBlocks == ~Quiescent => ENABLED ProgressInline

\* The number of places that hold entry e: a waiters collection, the drained
\* Vec of a running complete(), or the record of the woken entries.
RECURSIVE CountIn(_, _)
CountIn(e, s) == IF s = <<>> THEN 0 ELSE (IF Head(s) = e THEN 1 ELSE 0) + CountIn(e, Tail(s))

Held(e) ==
    CountIn(e, waiters[e.cell]) + SumOver([th \in Threads |-> CountIn(e, drained[th])], Threads)
        + CopiesIn(e, wakes)

AllEntries ==
    UNION {Range(waiters[c]) : c \in Cells} \cup UNION {Range(drained[th]) : th \in Threads}
        \cup BagToSet(wakes)

\* C16.  Each registered entry is consumed once: it is at any time in one
\* place only (its waiters collection, the Vec drained by one complete(), or
\* woken, once); it leaves the waiters only by the drain of a complete() of
\* its context, which leaves none of the drained entries behind; it leaves
\* the drained Vec only by being woken by the complete() that drained it; and
\* that complete() returns only when it has woken all it drained.  So no
\* entry is woken twice, by one complete() or by two running concurrently.
ConsumedOnce ==
    [][ /\ \A e \in AllEntries' : Held(e)' = 1
        /\ \A c \in Cells : \A e \in Range(waiters[c]) \ Range(waiters'[c]) :
              \E th \in Threads :
                  /\ cpc[th] = "notify" /\ cpc'[th] = "wake" /\ cself[th][1].wake = c
                  /\ e \in Range(drained'[th])
        /\ \A th \in Threads :
              /\ (cpc[th] = "notify" /\ cpc'[th] = "wake") =>
                    /\ Range(drained'[th]) = Range(waiters[cself[th][1].wake])
                    /\ Range(waiters'[cself[th][1].wake]) \cap Range(drained'[th]) = {}
              /\ \A e \in Range(drained[th]) \ Range(drained'[th]) :
                    CopiesIn(e, wakes) = 0 /\ CopiesIn(e, wakes') = 1
              /\ (cpc[th] # "idle" /\ cpc'[th] = "idle") => drained[th] = <<>>
      ]_vars

\* Two complete() calls of one context ran; the two entries one await had
\* registered there (it was polled twice while Pending) were each woken once
\* and the waiters are empty.
ConsumedOnceWitness ==
    \E c \in Cells : \E e, f \in BagToSet(wakes) :
        /\ CopiesIn(<<c, "call">>, returned) = 2
        /\ e.cell = c /\ f.cell = c /\ e.task = f.task /\ e.poll # f.poll
        /\ CopiesIn(e, wakes) = 1 /\ CopiesIn(f, wakes) = 1
        /\ waiters[c] = <<>>

\* The entries pushed by the running or last poll of task t.
PollEntries(t) == {e \in AllEntries : e.task = t /\ e.poll = polls[t]}

\* C17.  When a poll of C reads the flag of an ancestor A of C as true it
\* returns Ready having registered nothing in the waiters of C nor in those
\* of the contexts between A and C: the poll pushed entries into A and the
\* ancestors of A only.
AncestorShortCircuit ==
    \A t \in Tasks :
        (Returned(t) /\ res[t] = "Ready" /\ readyAt[t] # src[t]) =>
            /\ readyAt[t] \in Lineage(parentOf[src[t]])
            /\ {e.cell : e \in PollEntries(t)} = Lineage(readyAt[t])

\* A task on a grandchild was Pending (its first poll registered in all three
\* contexts); the middle context was completed; the second poll returned
\* Ready from the middle context's flag and pushed entries into the root and
\* the middle context, none into the grandchild.
AncestorShortCircuitWitness ==
    \E t \in Tasks :
        /\ Returned(t) /\ res[t] = "Ready" /\ polls[t] = 2
        /\ readyAt[t] = parentOf[src[t]] /\ parentOf[readyAt[t]] # 0
        /\ Cardinality(PollEntries(t)) = 2
        /\ \E e \in AllEntries : e.task = t /\ e.poll = 1 /\ e.cell = src[t]

\* Thread th has drained the waiters of cell c and has not yet left notify_all.
Notifying(th, c) == cpc[th] = "wake" /\ cself[th][1].wake = c

\* C18.  Drain-and-notify is atomic with respect to registration: from the
\* drain until the last drained waker is woken the complete() holds the
\* Mutex of the waiters, the waiters stay empty, and no step registers in
\* them; and when notify_all ends, every entry that was ever registered in
\* the context has been woken: a registration comes before the drain and is
\* woken by it, or after the whole of it.
AtomicDrain ==
    [][\A th \in Threads : \A c \in Cells :
          /\ Notifying(th, c) =>
                /\ lock[c] = th /\ waiters[c] = WakersDefault
                /\ waiters'[c] = waiters[c]
                /\ \A o \in Threads \ {th} : ~Notifying(o, c)
          /\ (Notifying(th, c) /\ cpc'[th] = "idle") =>
                \A e \in AllEntries : e.cell = c => BagIn(e, wakes)
      ]_vars

\* A complete() of a root context has drained two wakers and woken the first;
\* meanwhile the task of the first was polled again and its register waits
\* for the Mutex; it has registered nothing.
AtomicDrainWitness ==
    \E th \in Threads : \E t \in Tasks :
        /\ tpc[t] = "register" /\ prompt[t] /\ fut[t][1].parent = <<>>
        /\ Notifying(th, Own(t)) /\ Len(drained[th]) = 1
        /\ Woken(t, 1, Own(t)) /\ polls[t] = 2
        /\ ~ENABLED Register(t)

\* Thread th makes the store of its complete() in this step.
Stores(th) == cpc[th] = "store" /\ cpc'[th] = "notify"

\* C19, as the spec states it.  The flag is set to true within the
\* mutual-exclusion domain of the drain and the notification (the store is
\* made by a thread that holds the Mutex of the waiters), and before them, so
\* that the flag of X is true whenever a waker is woken by a complete() of X.
FlagUnderLock ==
    [][ /\ \A th \in Threads : Stores(th) => lock[cself[th][1].wake] = th
        /\ \A e \in BagToSet(wakes') : cond'[e.cell]
      ]_vars

\* C19, amended.  complete() sets the flag to true before it locks the
\* waiters, outside the Mutex (the store takes and holds no lock), and drains
\* and notifies afterwards: the flag of X is true from the drain on, so it is
\* true whenever a waker is woken by a complete() of X, and the next poll of
\* the woken task, of X or of a descendant of X, returns Ready.
FlagBeforeWake ==
    [][ /\ \A th \in Threads : Stores(th) =>
              lock' = lock /\ lock[cself[th][1].wake] # th /\ cond'[cself[th][1].cond]
        /\ \A th \in Threads : \A c \in Cells : Notifying(th, c)' => cond'[c]
        /\ \A e \in BagToSet(wakes') : cond'[e.cell]
        /\ \A t \in Tasks : (Returned(t) /\ prompt[t])' => res'[t] = "Ready"
      ]_vars

\* A task on a child was Pending; complete() was called on the root only and
\* woke the waker the task had registered in the root; the task's next poll,
\* begun after that wake, read the root's flag as true and returned Ready.
FlagBeforeWakeWitness ==
    \E t \in Tasks :
        /\ Returned(t) /\ prompt[t] /\ res[t] = "Ready" /\ polls[t] = 2
        /\ parentOf[src[t]] # 0 /\ parentOf[parentOf[src[t]]] = 0
        /\ called = {parentOf[src[t]]} /\ \A th \in Threads : via[th] = "call"
        /\ Woken(t, 1, parentOf[src[t]]) /\ readyAt[t] = parentOf[src[t]]
        /\ ~cond[src[t]]

\* C20.  A poll of C walks the chain from the root down, registering in each
\* context before it reads that context's flag: while it runs, the contexts
\* it has registered in are an ancestor of C together with all of that
\* ancestor's ancestors; when it has returned Pending it has pushed an entry
\* into the waiters of C and of every ancestor of C, and the entry is still
\* in the waiters of each of them on which no complete() has begun.
RegistersAlongChain ==
    \A t \in Tasks :
        /\ tpc[t] \in {"register", "load"} =>
              /\ {e.cell : e \in PollEntries(t)} \subseteq Lineage(src[t])
              /\ \A e \in PollEntries(t) : Lineage(e.cell) \subseteq {f.cell : f \in PollEntries(t)}
              /\ tpc[t] = "load" => PollEntries(t) # {}
        /\ (Returned(t) /\ res[t] = "Pending") =>
              /\ {e.cell : e \in PollEntries(t)} = Lineage(src[t])
              /\ \A c \in Lineage(src[t]) \ called :
                    \E e \in Range(waiters[c]) : e.task = t /\ e.poll = polls[t]

\* A task on a grandchild was polled twice, nothing was completed: the
\* entries of its second poll are in the waiters of the root, of the child
\* and of the grandchild.
RegistersAlongChainWitness ==
    \E t \in Tasks :
        /\ Returned(t) /\ res[t] = "Pending" /\ polls[t] = 2 /\ called = {}
        /\ Cardinality(Lineage(src[t])) = 3
        /\ \A c \in Lineage(src[t]) :
              \E e \in Range(waiters[c]) : e.task = t /\ e.poll = 2

====
